---- MODULE Spec2Model ----
(***************************************************************************)
(* Proportional Image Resizer (pir.pyw).                                   *)
(*                                                                         *)
(* The file holds two programs: the PyQt6 application (resize_image_task,  *)
(* BatchProcessor, DropZone, ResizerApp) and the earlier Tkinter           *)
(* application (ImageResizer).  Both are modelled here:                    *)
(*   SpecPlan   - the two resize computations as pure functions            *)
(*   SpecEntry  - the target-size entry points of both programs            *)
(*   Spec       - ResizerApp + BatchProcessor + the process pool + files   *)
(***************************************************************************)
EXTENDS Integers, Sequences, FiniteSets, TLC

VARIABLES
    pin,          \* SpecPlan: the drawn input [w, h, t] of the resize computation
    pout,         \* SpecPlan: what the two computations returned for pin
    fs,           \* the files on disk: path -> bytes
    dirs,         \* the directories on disk
    input_files,  \* ResizerApp.input_files (a set of paths)
    output_dir,   \* ResizerApp.output_dir (NoDir is None)
    txt_custom,   \* text of the "Custom px" field
    combo_size,   \* current text of the preset combo box
    ui,           \* widget states: buttons, drop zone, progress bar, count label
    console,      \* lines of the log console
    dialogs,      \* message boxes shown so far
    worker,       \* ResizerApp.worker: the BatchProcessor's fields
    pc,           \* position of BatchProcessor.run in its thread
    fut,          \* the futures of the pool: file -> [st, result, px]
    completed_count, \* local of BatchProcessor.run
    sigq,         \* signals emitted by the thread, queued for the GUI thread
    emits,        \* history: every signal the current run has emitted, in order
    runs,         \* history: what each started run read and left on disk
    adds,         \* history: the path lists that were added, in order
    legacy        \* ImageResizer: its widgets, and the calls of resize_image

restVars == <<pin, pout, legacy>>
diskVars == <<fs, dirs>>
guiVars  == <<input_files, output_dir, txt_custom, combo_size, ui, console, dialogs>>
runVars  == <<worker, pc, fut, completed_count, sigq, emits, runs>>
vars == <<pin, pout, fs, dirs, input_files, output_dir, txt_custom, combo_size,
          ui, console, dialogs, worker, pc, fut, completed_count, sigq, emits, runs,
          adds, legacy>>

(***************************************************************************)
(* Bounds                                                                  *)
(***************************************************************************)
MaxDim == 11
MaxTarget == 15
MaxText == 2
MaxPresses == 1
MaxRuns == 2
MaxAdds == 2
CpuCount == 2

(***************************************************************************)
(* Python arithmetic                                                       *)
(***************************************************************************)
Abs(n) == IF n < 0 THEN -n ELSE n

Max2(a, b) == IF a >= b THEN a ELSE b

\* <<a, t, d>> for which the double a * (t / d) falls one ulp short of the
\* integer a*t/d, so that int() gives one less than the exact quotient.
\* Complete for 1 <= a <= d <= 20, 1 <= |t| <= 24.
FloatShort == {<<11, 15, 11>>, <<13, 15, 13>>}

\* int(a * (t / d)) for ints a >= 0, d >= 1: the product is formed in double
\* precision and int() truncates toward zero.
IntMulRatio(a, t, d) ==
    LET q == (a * Abs(t)) \div d
        m == IF <<a, Abs(t), d>> \in FloatShort THEN q - 1 ELSE q
    IN  IF t < 0 THEN -m ELSE m

(***************************************************************************)
(* resize_image_task, lines 140-161: the dimensions and the action         *)
(***************************************************************************)
\* ratio = target_long_side / (the >= side); its comparison with 1.0 is exact
\* because x / x == 1.0 and t / x != 1.0 for ints t != x.
RatioVsOne(current_w, current_h, target_long_side) ==
    LET d == IF current_w >= current_h THEN current_w ELSE current_h
    IN  IF target_long_side > d THEN "gt"
        ELSE IF target_long_side < d THEN "lt" ELSE "eq"

\* mutant: the target is always given to the width
NewSizeWidthOnly(current_w, current_h, target_long_side) ==
    [new_w |-> target_long_side,
     new_h |-> IntMulRatio(current_h, target_long_side, current_w)]

NewSize(current_w, current_h, target_long_side) ==
    IF current_w >= current_h
    THEN [new_w |-> target_long_side,
          new_h |-> IntMulRatio(current_h, target_long_side, current_w)]
    ELSE [new_w |-> IntMulRatio(current_w, target_long_side, current_h),
          new_h |-> target_long_side]

ActionType(current_w, current_h, target_long_side) ==
    LET r == RatioVsOne(current_w, current_h, target_long_side)
    IN  IF r = "gt" THEN "Upscaled"
        ELSE IF r = "lt" THEN "Downscaled" ELSE "Copied"

\* if ratio != 1.0: img = img.resize((new_w, new_h), LANCZOS)
Resampled(current_w, current_h, target_long_side) ==
    RatioVsOne(current_w, current_h, target_long_side) # "eq"

(***************************************************************************)
(* ImageResizer.resize_image, lines 615-627                                *)
(***************************************************************************)
LegacyCopies(width, height, max_size) == Max2(width, height) = max_size

LegacyNewSize(width, height, max_size) ==
    IF width > height
    THEN [new_width  |-> max_size,
          new_height |-> IntMulRatio(height, max_size, width)]
    ELSE [new_width  |-> IntMulRatio(width, max_size, height),
          new_height |-> max_size]

(***************************************************************************)
(* Paths (pathlib.Path, os.path): sequences of components                  *)
(***************************************************************************)
NoDir == <<>>                       \* None for a directory attribute

Parent(p) == SubSeq(p, 1, Len(p) - 1)

Name(p) == p[Len(p)]

Join(dir, name) == Append(dir, name)

IsUnder(p, dir) == Len(p) > Len(dir) /\ SubSeq(p, 1, Len(dir)) = dir

\* os.path.relpath(p, root) for p beneath root
RelPath(p, root) == SubSeq(p, Len(root) + 1, Len(p))

\* every ancestor directory of p, and p itself: mkdir(parents=True)
WithParents(p) == {SubSeq(p, 1, n) : n \in 1..Len(p)}

\* Path.suffix of the file names of the modelled disk
Suffix(name) ==
    CASE name = "a.jpg"     -> ".jpg"
      [] name = "b.PNG"     -> ".PNG"
      [] name = "notes.txt" -> ".txt"
      [] OTHER              -> ""

\* str.lower() on the suffixes of the modelled disk
Lower(s) ==
    CASE s = ".PNG" -> ".png"
      [] OTHER      -> s

EXTENSIONS == {".jpg", ".jpeg", ".png", ".webp", ".bmp", ".tiff", ".tif", ".jfif"}

LegacyExtensions == {".png", ".jpg", ".jpeg", ".gif", ".bmp"}

(***************************************************************************)
(* The disk and the image codec (Pillow)                                   *)
(***************************************************************************)
PicsDir    == <<"pics">>
SubDir     == <<"pics", "sub">>
OutDir     == <<"out">>

FileA      == <<"pics", "a.jpg">>
FileB      == <<"pics", "sub", "a.jpg">>
FileC      == <<"pics", "b.PNG">>
FileNotes  == <<"pics", "notes.txt">>

\* Bytes of a file.  An image file carries the picture it encodes, its stored
\* size, colour mode and EXIF orientation, and gen: how many times the
\* picture went through Pillow's encoder (0: as the camera or editor wrote it).
Img(id, w, h, mode, orient) ==
    [kind |-> "img", id |-> id, w |-> w, h |-> h, mode |-> mode,
     orient |-> orient, gen |-> 0]

Junk == [kind |-> "junk", id |-> "-", w |-> 0, h |-> 0, mode |-> "-",
         orient |-> "-", gen |-> 0]

\* a file a writer has opened ("wb") and not finished writing
Partial == [kind |-> "partial", id |-> "-", w |-> 0, h |-> 0, mode |-> "-",
            orient |-> "-", gen |-> 0]

\* the disk of Spec: two pictures of the same name in a folder and its
\* subfolder, and a text file
InitFs ==
    (FileA :> Img("A", 4, 2, "RGB", "normal")) @@
    (FileB :> Img("B", 3, 2, "RGB", "rot90")) @@
    (FileNotes :> Junk)

\* the disk of SpecBatch: the same, and a file named as an image that is none
BatchFs == InitFs @@ (FileC :> Junk)

InitDirs == {PicsDir, SubDir, OutDir}

\* Image.open + ImageOps.exif_transpose: the picture as displayed.
\* A rot90 orientation tag swaps the sides and is dropped.
Transposed(bytes) ==
    IF bytes.orient = "rot90"
    THEN [bytes EXCEPT !.w = bytes.h, !.h = bytes.w, !.orient = "normal"]
    ELSE bytes

\* lines 136-138: RGBA and P pictures become RGB for a JPEG destination
Converted(px, output_path) ==
    IF /\ Lower(Suffix(Name(output_path))) \in {".jpg", ".jpeg", ".jfif"}
       /\ px.mode \in {"RGBA", "P"}
    THEN [px EXCEPT !.mode = "RGB"]
    ELSE px

\* img.resize((new_w, new_h), LANCZOS)
Resize(px, new_w, new_h) == [px EXCEPT !.w = new_w, !.h = new_h]

\* img.resize raises ValueError for a side below 1 and the task returns its
\* Error line, line 170
ResizeRaises(new_w, new_h) == new_w < 1 \/ new_h < 1

\* img.save(output_path, quality=90, optimize=True): the bytes Pillow's
\* encoder produces for the picture; never the bytes the picture came from.
Encode(px) == [px EXCEPT !.gen = px.gen + 1]

(***************************************************************************)
(* Text of the entry widgets: sequences of characters                      *)
(***************************************************************************)
Digits == {"0", "1", "2", "3", "4", "5", "6", "7", "8", "9"}

DigitVal(c) ==
    CASE c = "0" -> 0 [] c = "1" -> 1 [] c = "2" -> 2 [] c = "3" -> 3
      [] c = "4" -> 4 [] c = "5" -> 5 [] c = "6" -> 6 [] c = "7" -> 7
      [] c = "8" -> 8 [] c = "9" -> 9

RECURSIVE LStrip(_)
LStrip(s) == IF s # <<>> /\ Head(s) = " " THEN LStrip(Tail(s)) ELSE s

RECURSIVE RStrip(_)
RStrip(s) ==
    IF s # <<>> /\ s[Len(s)] = " " THEN RStrip(SubSeq(s, 1, Len(s) - 1)) ELSE s

\* str.strip()
Strip(s) == RStrip(LStrip(s))

\* str.isdigit(): non-empty and every character a digit
IsDigit(s) == s # <<>> /\ \A i \in 1..Len(s) : s[i] \in Digits

RECURSIVE DigitsValue(_)
DigitsValue(s) ==
    IF s = <<>> THEN 0
    ELSE 10 * DigitsValue(SubSeq(s, 1, Len(s) - 1)) + DigitVal(s[Len(s)])

\* int(s) accepts surrounding whitespace and one leading sign ...
IntParses(s) ==
    LET b == Strip(s)
    IN  IF b # <<>> /\ Head(b) \in {"-", "+"} THEN IsDigit(Tail(b)) ELSE IsDigit(b)

\* ... and its value when it does (ValueError otherwise)
IntValue(s) ==
    LET b == Strip(s)
    IN  IF Head(b) = "-" THEN -DigitsValue(Tail(b))
        ELSE IF Head(b) = "+" THEN DigitsValue(Tail(b))
        ELSE DigitsValue(b)

\* the items of combo_size, line 340; "1216" is selected at construction
Resolutions ==
    {<<"5", "1", "2">>, <<"7", "6", "8">>, <<"1", "0", "2", "4">>,
     <<"1", "2", "1", "6">>, <<"1", "2", "8", "0">>, <<"1", "6", "0", "0">>,
     <<"1", "9", "2", "0">>, <<"2", "0", "4", "8">>, <<"2", "4", "3", "2">>,
     <<"3", "8", "4", "0">>, <<"4", "0", "9", "6">>}

DefaultResolution == <<"1", "2", "1", "6">>

\* ResizerApp.get_target_size
GetTargetSize(custom_text, combo_text) ==
    LET custom == Strip(custom_text)
    IN  IF IsDigit(custom) /\ IntValue(custom) > 0
        THEN IntValue(custom)
        ELSE IntValue(combo_text)

\* ImageResizer.get_max_size: [ok |-> FALSE] is None
GetMaxSize(entry_text) ==
    IF IntParses(entry_text)
    THEN [ok |-> TRUE, max_size |-> IntValue(entry_text)]
    ELSE [ok |-> FALSE, max_size |-> 0]

(***************************************************************************)
(* ResizerApp: the GUI thread                                              *)
(***************************************************************************)
\* ResizerApp.worker before the first start_job (None)
NoWorker == [made |-> FALSE, files |-> {}, output_dir |-> NoDir, max_size |-> 0,
             is_running |-> FALSE]

\* a line of the console / an argument of log_message
Line(file, text, size) == [file |-> file, text |-> text, size |-> size]

Note(text) == Line(NoDir, text, <<>>)

\* a signal emitted by the BatchProcessor thread
Signal(sig, line) == [sig |-> sig, line |-> line]

InitUi == [btn_process_visible |-> TRUE, btn_cancel_visible |-> FALSE,
           btn_cancel_enabled |-> TRUE, drop_zone_enabled |-> TRUE,
           progress |-> 0, lbl_count |-> 0]

\* mutant: the suffix is compared as it is written
IsImageNameCaseSensitive(p) == Suffix(Name(p)) \in EXTENSIONS

IsImageName(p) == Lower(Suffix(Name(p))) \in EXTENSIONS

\* lines 411-423: what one incoming path contributes to new_files
ScanOne(p) ==
    IF p \in DOMAIN fs
    THEN IF IsImageName(p) THEN {p} ELSE {}
    ELSE IF p \in dirs
         THEN {item \in DOMAIN fs : IsUnder(item, p) /\ IsImageName(item)}
         ELSE {}

NewFiles(paths) == UNION {ScanOne(paths[i]) : i \in 1..Len(paths)}

\* the path lists the user drops or browses to
IncomingChoices == {<<PicsDir>>, <<FileA>>, <<FileNotes>>, <<FileB, FileA>>}

\* the folders the user picks in the output dialog (existing directories)
OutputChoices == {PicsDir}

\* what the custom field holds when a batch of SpecBatch starts
CustomChoices == {<<>>, <<"4">>}

\* mutant: the queue is counted as a list to which every scan hit is appended
ProcessIncomingPathsAsList(paths) ==
    LET final == input_files \cup NewFiles(paths)
        added == Cardinality(NewFiles(paths))
    IN  /\ ui.drop_zone_enabled
        /\ Len(adds) < MaxAdds
        /\ adds' = Append(adds, paths)
        /\ input_files' = final
        /\ ui' = [ui EXCEPT !.lbl_count = ui.lbl_count + added]
        /\ IF added > 0
           THEN /\ console' = Append(console, Line(NoDir, "Added", <<added>>))
                /\ IF output_dir = NoDir
                   THEN \E first_file \in final :
                            output_dir' = Join(Parent(first_file), "Resized")
                   ELSE UNCHANGED output_dir
           ELSE /\ console' = Append(console, Note("No new valid images found"))
                /\ UNCHANGED output_dir
        /\ UNCHANGED <<txt_custom, combo_size, dialogs>>

\* process_incoming_paths; next(iter(self.input_files)) yields whichever
\* element the set's hash order puts first.
ProcessIncomingPaths(paths) ==
    LET final == input_files \cup NewFiles(paths)
        added == Cardinality(final) - Cardinality(input_files)
    IN  /\ ui.drop_zone_enabled
        /\ Len(adds) < MaxAdds
        /\ adds' = Append(adds, paths)
        /\ input_files' = final
        /\ ui' = [ui EXCEPT !.lbl_count = Cardinality(final)]
        /\ IF added > 0
           THEN /\ console' = Append(console, Line(NoDir, "Added", <<added>>))
                /\ IF output_dir = NoDir
                   THEN \E first_file \in final :
                            output_dir' = Join(Parent(first_file), "Resized")
                   ELSE UNCHANGED output_dir
           ELSE /\ console' = Append(console, Note("No new valid images found"))
                /\ UNCHANGED output_dir
        /\ UNCHANGED <<txt_custom, combo_size, dialogs>>

\* choose_output, with a folder picked (an empty pick changes nothing).
\* A running batch does not read output_dir, so this step commutes with
\* every step of the batch; it is taken between batches.
ChooseOutput(folder) ==
    /\ ui.btn_process_visible
    /\ folder \in dirs
    /\ output_dir' = folder
    /\ UNCHANGED <<input_files, txt_custom, combo_size, ui, console, dialogs, adds>>

\* what a started run read and left behind (history, for the properties)
NewRun(files, dir, size) ==
    [files |-> files, output_dir |-> dir, max_size |-> size,
     src |-> [f \in files |-> IF f \in DOMAIN fs THEN fs[f] ELSE Partial],
     clean |-> ~\E p \in DOMAIN fs : Parent(p) = dir,
     cancelled |-> FALSE, faults |-> {}, finished |-> FALSE,
     out |-> <<>>, complete_shown |-> FALSE]

\* start_job up to the empty-queue warning, lines 460-462
StartJobEmpty ==
    /\ ui.btn_process_visible
    /\ input_files = {}
    /\ dialogs' = dialogs \cup {"Empty Queue"}
    /\ UNCHANGED <<input_files, output_dir, txt_custom, combo_size, ui, console>>
    /\ UNCHANGED <<runVars, diskVars, adds>>

\* mutant: the buttons are switched and the console cleared before mkdir
StartJobMkdirFailsLate ==
    /\ ui.btn_process_visible
    /\ input_files # {}
    /\ \E first \in input_files :
         LET dir == IF output_dir = NoDir THEN Join(Parent(first), "Resized")
                    ELSE output_dir
         IN  /\ dir \notin dirs
             /\ output_dir' = dir
    /\ dialogs' = dialogs \cup {"IO Error"}
    /\ ui' = [ui EXCEPT !.btn_process_visible = FALSE,
                        !.btn_cancel_visible = TRUE,
                        !.drop_zone_enabled = FALSE]
    /\ console' = <<>>
    /\ UNCHANGED <<input_files, txt_custom, combo_size>>
    /\ UNCHANGED <<runVars, diskVars, adds>>

\* start_job when mkdir raises, lines 464-475
StartJobMkdirFails ==
    /\ ui.btn_process_visible
    /\ input_files # {}
    /\ \E first \in input_files :
         LET dir == IF output_dir = NoDir THEN Join(Parent(first), "Resized")
                    ELSE output_dir
         IN  /\ dir \notin dirs
             /\ output_dir' = dir
    /\ dialogs' = dialogs \cup {"IO Error"}
    /\ UNCHANGED <<input_files, txt_custom, combo_size, ui, console>>
    /\ UNCHANGED <<runVars, diskVars, adds>>

\* mutant: a batch is given only the files no earlier batch was given
StartJobNewOnly ==
    /\ ui.btn_process_visible
    /\ input_files # {}
    /\ Len(runs) < MaxRuns
    \* one pool is modelled: the next batch starts when the workers of a
    \* cancelled one have run out of tasks
    /\ \A f \in DOMAIN fut : fut[f].st \in {"done", "cancelled"}
    /\ \E first \in input_files :
         LET dir == IF output_dir = NoDir THEN Join(Parent(first), "Resized")
                    ELSE output_dir
             target_size == GetTargetSize(txt_custom, combo_size)
             todo == input_files \ UNION {runs[i].files : i \in DOMAIN runs}
         IN  /\ output_dir' = dir
             /\ dirs' = dirs \cup WithParents(dir)
             /\ console' = <<Line(NoDir, "Starting batch", <<target_size>>),
                             Note("Mode: Upscale and Downscale allowed"),
                             Line(dir, "Destination", <<>>)>>
             /\ worker' = [made |-> TRUE, files |-> todo,
                           output_dir |-> dir, max_size |-> target_size,
                           is_running |-> TRUE]
             /\ runs' = Append(runs, NewRun(todo, dir, target_size))
    /\ ui' = [ui EXCEPT !.btn_process_visible = FALSE,
                        !.btn_cancel_visible = TRUE,
                        !.drop_zone_enabled = FALSE,
                        !.progress = 0]
    /\ pc' = "start"
    /\ fut' = <<>>
    /\ completed_count' = 0
    /\ emits' = <<>>
    /\ UNCHANGED <<input_files, txt_custom, combo_size, dialogs, fs, sigq, adds>>

\* start_job, lines 459-492: the batch is created and its thread started
StartJob ==
    /\ ui.btn_process_visible
    /\ input_files # {}
    /\ Len(runs) < MaxRuns
    \* one pool is modelled: the next batch starts when the workers of a
    \* cancelled one have run out of tasks
    /\ \A f \in DOMAIN fut : fut[f].st \in {"done", "cancelled"}
    /\ \E first \in input_files :
         LET dir == IF output_dir = NoDir THEN Join(Parent(first), "Resized")
                    ELSE output_dir
             target_size == GetTargetSize(txt_custom, combo_size)
         IN  /\ output_dir' = dir
             /\ dirs' = dirs \cup WithParents(dir)
             /\ console' = <<Line(NoDir, "Starting batch", <<target_size>>),
                             Note("Mode: Upscale and Downscale allowed"),
                             Line(dir, "Destination", <<>>)>>
             /\ worker' = [made |-> TRUE, files |-> input_files,
                           output_dir |-> dir, max_size |-> target_size,
                           is_running |-> TRUE]
             /\ runs' = Append(runs, NewRun(input_files, dir, target_size))
    /\ ui' = [ui EXCEPT !.btn_process_visible = FALSE,
                        !.btn_cancel_visible = TRUE,
                        !.drop_zone_enabled = FALSE,
                        !.progress = 0]
    /\ pc' = "start"
    /\ fut' = <<>>
    /\ completed_count' = 0
    /\ emits' = <<>>
    /\ UNCHANGED <<input_files, txt_custom, combo_size, dialogs, fs, sigq, adds>>

\* cancel_job
CancelJob ==
    /\ ui.btn_cancel_visible /\ ui.btn_cancel_enabled
    /\ IF worker.made
       THEN /\ worker' = [worker EXCEPT !.is_running = FALSE]
            /\ console' = Append(console, Note("Stopping..."))
            /\ ui' = [ui EXCEPT !.btn_cancel_enabled = FALSE]
       ELSE UNCHANGED <<worker, console, ui>>
    /\ UNCHANGED <<input_files, output_dir, txt_custom, combo_size, dialogs>>
    /\ UNCHANGED <<pc, fut, completed_count, sigq, emits, runs, diskVars, adds>>

\* job_finished
JobFinished ==
    /\ ui' = [ui EXCEPT !.btn_process_visible = TRUE,
                        !.btn_cancel_visible = FALSE,
                        !.btn_cancel_enabled = TRUE,
                        !.drop_zone_enabled = TRUE,
                        !.progress = 100]
    /\ dialogs' = dialogs \cup {"Done"}
    /\ runs' = [runs EXCEPT ![Len(runs)].complete_shown = TRUE]
    /\ UNCHANGED console

\* The GUI thread's event loop runs the slot of the oldest queued signal:
\* log_message -> log, progress -> progress.setValue, finished -> job_finished.
Deliver ==
    /\ sigq # <<>>
    /\ sigq' = Tail(sigq)
    /\ LET s == Head(sigq)
       IN  CASE s.sig = "log" ->
                  /\ console' = Append(console, s.line)
                  /\ UNCHANGED <<ui, dialogs, runs>>
             [] s.sig = "progress" ->
                  /\ ui' = [ui EXCEPT !.progress = s.line.size[1]]
                  /\ UNCHANGED <<console, dialogs, runs>>
             [] s.sig = "finished" -> JobFinished
    /\ UNCHANGED <<input_files, output_dir, txt_custom, combo_size>>
    /\ UNCHANGED <<worker, pc, fut, completed_count, emits, diskVars, adds>>

(***************************************************************************)
(* resize_image_task in a worker process of the pool                       *)
(***************************************************************************)
\* seen: the loop got the future from as_completed.  ord is the place of a
\* done future in the order in which as_completed learnt that the futures
\* were done; early tells that as_completed holds it among those that were
\* done when it was called.
Future(st, text, size, px) ==
    [st |-> st, text |-> text, size |-> size, px |-> px, seen |-> FALSE,
     ord |-> 0, early |-> FALSE]

DoneCount == Cardinality({g \in DOMAIN fut : fut[g].st = "done"})

\* the place as_completed's waiter gives the next future that becomes done;
\* no waiter is left once the loop has ended
NextOrd == IF pc \in {"submit", "loop"} THEN DoneCount + 1 ELSE 0

\* the future of a task that returned (or raised) without an output file
Completed(text) ==
    [Future("done", text, <<>>, Junk) EXCEPT !.ord = NextOrd]

\* output_path = output_folder / file_path.name, line 130
OutputPath(file_path, output_folder) == Join(output_folder, Name(file_path))

\* max_workers of the pool, line 193
Workers == IF Cardinality(worker.files) < CpuCount
           THEN Cardinality(worker.files) ELSE CpuCount

Busy == {f \in DOMAIN fut : fut[f].st \in {"running", "writing"}}

\* The pool takes tasks from the first submit on.  After the loop broke on a
\* cancellation, the shutdown(wait=True) of the with block finds the manager
\* thread already dropped by shutdown(wait=False) and does not wait: tasks
\* go on in the worker processes after run() has ended.
PoolOpen == pc \in {"submit", "loop", "exit", "done"}

ThisRun == runs[Len(runs)]

\* history: the environment failed the current run in this way
Fault(kind) == runs' = [runs EXCEPT ![Len(runs)].faults = @ \cup {kind}]

\* A worker takes the task and runs it up to img.size: Image.open,
\* exif_transpose and the RGB conversion.  A file that is no image raises
\* UnidentifiedImageError (Skipped); a missing file, or one another writer
\* has not finished, raises OSError (Error) or UnidentifiedImageError.
TaskOpen(f) ==
    /\ PoolOpen
    /\ f \in DOMAIN fut /\ fut[f].st = "pending"
    /\ Cardinality(Busy) < Workers
    /\ LET dest == OutputPath(f, worker.output_dir)
       IN  IF f \notin DOMAIN fs
           THEN fut' = [fut EXCEPT ![f] = Completed("Error")]
           ELSE CASE fs[f].kind = "junk" ->
                       fut' = [fut EXCEPT ![f] = Completed("Skipped")]
                  [] fs[f].kind = "partial" ->
                       \E text \in {"Skipped", "Error"} :
                          fut' = [fut EXCEPT ![f] = Completed(text)]
                  [] fs[f].kind = "img" ->
                       fut' = [fut EXCEPT ![f] =
                                  Future("running", "", <<>>,
                                         Converted(Transposed(fs[f]), dest))]
    /\ UNCHANGED <<worker, pc, completed_count, sigq, emits, runs>>
    /\ UNCHANGED <<guiVars, diskVars, adds>>

\* lines 140-163 up to the open of the output file by img.save: the sizes,
\* the action, the resampling; the output file is created or truncated.
TaskSave(f) ==
    /\ f \in DOMAIN fut /\ fut[f].st = "running"
    /\ LET px   == fut[f].px
           t    == worker.max_size
           new  == NewSize(px.w, px.h, t)
           out  == IF Resampled(px.w, px.h, t)
                   THEN Resize(px, new.new_w, new.new_h) ELSE px
           dest == OutputPath(f, worker.output_dir)
       IN  IF Resampled(px.w, px.h, t) /\ ResizeRaises(new.new_w, new.new_h)
           THEN \* resize raises ValueError("height and width must be > 0")
                /\ fut' = [fut EXCEPT ![f] = Completed("Error")]
                /\ UNCHANGED fs
           ELSE /\ fut' = [fut EXCEPT ![f] =
                             Future("writing", ActionType(px.w, px.h, t),
                                    <<px.w, px.h, new.new_w, new.new_h>>, out)]
                /\ fs' = [p \in DOMAIN fs \cup {dest} |->
                             IF p = dest THEN Partial ELSE fs[p]]
    /\ UNCHANGED <<worker, pc, completed_count, sigq, emits, runs>>
    /\ UNCHANGED <<guiVars, dirs, adds>>

\* img.save raises OSError when it opens the output file (the folder is not
\* writable, the disk is full): caught at line 169, nothing is written.
TaskSaveFails(f) ==
    /\ f \in DOMAIN fut /\ fut[f].st = "running"
    /\ fut' = [fut EXCEPT ![f] = Completed("Error")]
    /\ Fault("write")
    /\ UNCHANGED <<worker, pc, completed_count, sigq, emits>>
    /\ UNCHANGED <<guiVars, diskVars, adds>>

\* img.save completes and the task returns its line, lines 163-165
TaskDone(f) ==
    /\ f \in DOMAIN fut /\ fut[f].st = "writing"
    /\ LET dest == OutputPath(f, worker.output_dir)
       IN  fs' = [p \in DOMAIN fs \cup {dest} |->
                     IF p = dest THEN Encode(fut[f].px) ELSE fs[p]]
    /\ fut' = [fut EXCEPT ![f].st = "done", ![f].ord = NextOrd]
    /\ UNCHANGED <<worker, pc, completed_count, sigq, emits, runs>>
    /\ UNCHANGED <<guiVars, dirs, adds>>

\* A worker process dies while it runs a task (killed, out of memory): the
\* pool is broken and every future that is not done gets BrokenProcessPool.
WorkerDies ==
    /\ Busy # {}
    /\ fut' = [f \in DOMAIN fut |->
                 IF fut[f].st \in {"pending", "running", "writing"}
                 THEN Completed("raised") ELSE fut[f]]
    /\ Fault("died")
    /\ UNCHANGED <<worker, pc, completed_count, sigq, emits>>
    /\ UNCHANGED <<guiVars, diskVars, adds>>

(***************************************************************************)
(* BatchProcessor.run in its QThread                                       *)
(***************************************************************************)
Emit(signals) ==
    /\ sigq' = sigq \o signals
    /\ emits' = emits \o signals

\* int((completed_count / total) * 100); the double product equals the exact
\* quotient's floor for every total up to 40.
\* mutant: the percentage is taken before the count is incremented
PercentBeforeIncrement(count, total) == ((count - 1) * 100) \div total

Percent(count, total) == (count * 100) \div total

CancelledMarker == Note("!!! Operation Cancelled !!!")

\* the files directly in the run's output folder, as the run leaves them
Outputs(dir) == [p \in {q \in DOMAIN fs : Parent(q) = dir} |-> fs[p]]

\* lines 188-200: an empty batch finishes at once; otherwise the pool is
\* made and every file submitted.  The workers take tasks while the thread
\* is still between the submits and the call of as_completed.
\* mutant: run() has no branch for an empty list, and the pool constructor
\* raises for max_workers = 0, which ends the thread with nothing emitted
RunSubmitNoEmptyCheck ==
    /\ pc = "start"
    /\ IF worker.files = {}
       THEN /\ pc' = "done"
            /\ UNCHANGED <<fut, sigq, emits, runs>>
       ELSE /\ fut' = [f \in worker.files |-> Future("pending", "", <<>>, Junk)]
            /\ pc' = "submit"
            /\ UNCHANGED <<sigq, emits, runs>>
    /\ completed_count' = 0
    /\ UNCHANGED <<worker, guiVars, diskVars, adds>>

RunSubmit ==
    /\ pc = "start"
    /\ IF worker.files = {}
       THEN /\ Emit(<<Signal("finished", Note(""))>>)
            /\ pc' = "done"
            /\ runs' = [runs EXCEPT ![Len(runs)].finished = TRUE,
                                    ![Len(runs)].out = Outputs(worker.output_dir)]
            /\ UNCHANGED fut
       ELSE /\ fut' = [f \in worker.files |-> Future("pending", "", <<>>, Junk)]
            /\ pc' = "submit"
            /\ UNCHANGED <<sigq, emits, runs>>
    /\ completed_count' = 0
    /\ UNCHANGED <<worker, guiVars, diskVars, adds>>

\* as_completed(futures), line 202, is called: the futures that are done by
\* now are put in a set, which the loop goes through before it waits for
\* any other.
RunAsCompleted ==
    /\ pc = "submit"
    /\ fut' = [f \in DOMAIN fut |->
                 [fut[f] EXCEPT !.early = (fut[f].st = "done")]]
    /\ pc' = "loop"
    /\ UNCHANGED <<worker, completed_count, sigq, emits, runs>>
    /\ UNCHANGED <<guiVars, diskVars, adds>>

\* The future as_completed yields next: any of those done before it was
\* called, in the order of a set; after them, the futures in the order
\* they became done.
Yields(f) ==
    /\ f \in DOMAIN fut /\ fut[f].st = "done" /\ ~fut[f].seen
    /\ LET waiting == {g \in DOMAIN fut : fut[g].st = "done" /\ ~fut[g].seen}
       IN  IF \E g \in waiting : fut[g].early
           THEN fut[f].early
           ELSE \A g \in waiting : fut[f].ord <= fut[g].ord

\* mutant: future.result() is called outside any try, so the exception of a
\* future ends run() and its thread
RunIterationNoTry(f) ==
    /\ pc = "loop"
    /\ Yields(f)
    /\ worker.is_running
    /\ fut' = [fut EXCEPT ![f].seen = TRUE, ![f].early = FALSE]
    /\ IF fut[f].text = "raised"
       THEN /\ pc' = "done"
            /\ UNCHANGED <<sigq, emits, completed_count>>
       ELSE /\ Emit(<<Signal("log", Line(f, fut[f].text, fut[f].size)),
                      Signal("progress",
                        Line(NoDir, "",
                             <<Percent(completed_count + 1,
                                       Cardinality(worker.files))>>))>>)
            /\ completed_count' = completed_count + 1
            /\ pc' = IF \A g \in DOMAIN fut : g = f \/ fut[g].seen
                     THEN "exit" ELSE "loop"
    /\ UNCHANGED <<worker, runs, guiVars, diskVars, adds>>

\* one iteration of "for future in as_completed(futures)", lines 202-215,
\* for a future f that is done and was not yielded before
RunIteration(f) ==
    /\ pc = "loop"
    /\ Yields(f)
    /\ IF ~worker.is_running
       THEN \* shutdown(wait=False, cancel_futures=True); emit; break.
            \* The manager thread cancels the futures that are not yet in
            \* the pool's call queue, if it reads the request before the
            \* shutdown of the with block resets it.
            /\ \E dropped \in SUBSET {g \in DOMAIN fut : fut[g].st = "pending"} :
                 fut' = [g \in DOMAIN fut |->
                           [fut[g] EXCEPT
                              !.st = IF g \in dropped THEN "cancelled" ELSE @,
                              !.seen = (g = f) \/ @,
                              !.ord = IF fut[g].seen THEN @ ELSE 0,
                              !.early = FALSE]]
            /\ Emit(<<Signal("log", CancelledMarker)>>)
            /\ runs' = [runs EXCEPT ![Len(runs)].cancelled = TRUE]
            /\ pc' = "exit"
            /\ UNCHANGED completed_count
       ELSE /\ fut' = [fut EXCEPT ![f].seen = TRUE, ![f].early = FALSE]
            /\ Emit(<<Signal("log",
                        IF fut[f].text = "raised"
                        THEN Line(f, "System Error", <<>>)
                        ELSE Line(f, fut[f].text, fut[f].size)),
                      Signal("progress",
                        Line(NoDir, "",
                             <<Percent(completed_count + 1,
                                       Cardinality(worker.files))>>))>>)
            /\ completed_count' = completed_count + 1
            /\ pc' = IF \A g \in DOMAIN fut : g = f \/ fut[g].seen
                     THEN "exit" ELSE "loop"
            /\ UNCHANGED runs
    /\ UNCHANGED <<worker, guiVars, diskVars, adds>>

\* mutant: finished is emitted before the with block is left and again
\* after it
RunFinishTwice ==
    /\ pc = "exit"
    /\ ThisRun.cancelled \/ Busy = {}
    /\ Emit(<<Signal("finished", Note("")), Signal("finished", Note(""))>>)
    /\ runs' = [runs EXCEPT ![Len(runs)].finished = TRUE,
                            ![Len(runs)].out = Outputs(worker.output_dir)]
    /\ pc' = "done"
    /\ UNCHANGED <<worker, fut, completed_count, guiVars, diskVars, adds>>

\* the end of the with block and finished.emit(), line 217.  shutdown
\* (wait=True) waits for the workers unless the loop's shutdown(wait=False)
\* came first.
RunFinish ==
    /\ pc = "exit"
    /\ ThisRun.cancelled \/ Busy = {}
    /\ Emit(<<Signal("finished", Note(""))>>)
    /\ runs' = [runs EXCEPT ![Len(runs)].finished = TRUE,
                            ![Len(runs)].out = Outputs(worker.output_dir)]
    /\ pc' = "done"
    /\ UNCHANGED <<worker, fut, completed_count, guiVars, diskVars, adds>>

\* someone empties the output folder of the last run between two runs
ClearOutput ==
    /\ Len(runs) > 0 /\ Len(runs) < MaxRuns
    /\ pc = "done" /\ sigq = <<>>
    /\ \E p \in DOMAIN fs : Parent(p) = worker.output_dir
    /\ fs' = [p \in {q \in DOMAIN fs : Parent(q) # worker.output_dir} |-> fs[p]]
    /\ UNCHANGED <<dirs, guiVars, runVars, adds>>

(***************************************************************************)
(* ImageResizer: the Tkinter application                                   *)
(***************************************************************************)
InitLegacy == [selected_folder |-> NoDir,
               max_size_entry  |-> <<"1", "9", "2", "0">>,
               feedback        |-> <<>>,
               progress_var    |-> 0,
               presses         |-> 0,
               calls           |-> <<>>]

\* get_image_files: os.walk over the folder, the lower-cased name ending in
\* one of the five extensions
GetImageFiles(folder) ==
    {p \in DOMAIN fs :
        IsUnder(p, folder) /\ Lower(Suffix(Name(p))) \in LegacyExtensions}

\* resize_image on the disk d = [fs, dirs, feedback]: the disk it leaves
LegacyResizeImage(d, file_path, output_path, max_size) ==
    IF file_path \notin DOMAIN d.fs \/ d.fs[file_path].kind # "img"
    THEN [d EXCEPT !.feedback = Append(@, Line(file_path, "Error processing", <<>>))]
    ELSE
      LET bytes == d.fs[file_path]
          new   == LegacyNewSize(bytes.w, bytes.h, max_size)
          made  == d.dirs \cup WithParents(Parent(output_path))
          put(b) == [p \in DOMAIN d.fs \cup {output_path} |->
                        IF p = output_path THEN b ELSE d.fs[p]]
      IN  IF ~LegacyCopies(bytes.w, bytes.h, max_size)
          THEN IF ResizeRaises(new.new_width, new.new_height)
               THEN \* image.resize raises ValueError
                    [d EXCEPT !.feedback =
                        Append(@, Line(file_path, "Error processing", <<>>))]
               ELSE [fs |-> put(Encode(Resize(bytes, new.new_width, new.new_height))),
                     dirs |-> made,
                     feedback |-> Append(d.feedback,
                                    Line(file_path, "resized and saved", <<>>))]
          ELSE \* lines 637-647: the bytes are copied chunk by chunk
               [fs |-> put(bytes),
                dirs |-> made,
                feedback |-> Append(d.feedback,
                               Line(file_path, "copied without resizing", <<>>))]

\* the loop of resize_images, lines 579-586, over the files in walk order
RECURSIVE LegacyLoop(_, _, _, _)
LegacyLoop(d, files, folder, max_size) ==
    IF files = <<>> THEN d
    ELSE LegacyLoop(
           LegacyResizeImage(d, Head(files),
               Join(folder, "Resized") \o RelPath(Head(files), folder), max_size),
           Tail(files), folder, max_size)

\* the orders os.walk can list a set of files in
Orders(S) == {o \in [1..Cardinality(S) -> S] : \A f \in S : \E i \in DOMAIN o : o[i] = f}

LegacyCall(file_path, folder, max_size) ==
    [file_path |-> file_path,
     output_path |-> Join(folder, "Resized") \o RelPath(file_path, folder),
     max_size |-> max_size]

\* browse_folder, with a folder picked
LegacyBrowseFolder(folder) ==
    /\ folder \in dirs
    /\ legacy' = [legacy EXCEPT
                    !.selected_folder = folder,
                    !.feedback = <<Line(folder, "Input Folder", <<>>),
                                   Line(Join(folder, "Resized"), "Output Folder", <<>>)>>]
    /\ UNCHANGED fs /\ UNCHANGED dirs

\* resize_images, the whole handler
LegacyResizeImages ==
    /\ legacy.presses < MaxPresses
    /\ LET folder == legacy.selected_folder
           got    == GetMaxSize(legacy.max_size_entry)
           found  == GetImageFiles(folder)
           say(text) == [legacy EXCEPT !.feedback = Append(@, Note(text)),
                                       !.presses = @ + 1]
       IN  IF folder = NoDir
           THEN /\ legacy' = say("Please select a folder first.")
                /\ UNCHANGED fs /\ UNCHANGED dirs
           ELSE IF ~got.ok
           THEN /\ legacy' = say("Please enter a valid max size.")
                /\ UNCHANGED fs /\ UNCHANGED dirs
           ELSE IF found = {}
           THEN /\ legacy' = say("No image files found in the selected folder.")
                /\ UNCHANGED fs /\ UNCHANGED dirs
           ELSE \E image_files \in Orders(found) :
                  LET d == LegacyLoop([fs |-> fs, dirs |-> dirs,
                                       feedback |-> legacy.feedback],
                                      image_files, folder, got.max_size)
                  IN  /\ fs' = d.fs
                      /\ dirs' = d.dirs
                      /\ legacy' = [legacy EXCEPT
                           !.feedback = d.feedback,
                           !.progress_var = 100,
                           !.presses = @ + 1,
                           !.calls = @ \o [i \in DOMAIN image_files |->
                                 LegacyCall(image_files[i], folder, got.max_size)]]

(***************************************************************************)
(* SpecPlan: the computations applied to every drawn (w, h, target)        *)
(***************************************************************************)
NoOut == [by |-> "none"]

\* the state after ResizerApp.__init__, on the modelled disk
InitApp ==
    /\ fs = InitFs
    /\ dirs = InitDirs
    /\ input_files = {}
    /\ output_dir = NoDir
    /\ txt_custom = <<>>
    /\ combo_size = DefaultResolution
    /\ ui = InitUi
    /\ console = <<>>
    /\ dialogs = {}
    /\ worker = NoWorker
    /\ pc = "none"
    /\ fut = <<>>
    /\ completed_count = 0
    /\ sigq = <<>>
    /\ emits = <<>>
    /\ runs = <<>>
    /\ adds = <<>>
    /\ legacy = InitLegacy

appVars == <<fs, dirs, input_files, output_dir, txt_custom, combo_size, ui,
             console, dialogs, worker, pc, fut, completed_count, sigq, emits,
             runs, adds, legacy>>

InitPlan ==
    /\ pin \in [w : 1..MaxDim, h : 1..MaxDim, t : 1..MaxTarget]
    /\ pout = NoOut
    /\ InitApp

\* resize_image_task on a decoded image of size (w, h): the reported line is
\* "{action_type}: name ({current_w}x{current_h} -> {new_w}x{new_h})", or
\* "Error: ..." when the resize raised.
PlanTask ==
    /\ pout.by = "none"
    /\ pout' = [by        |-> "task",
                action    |-> ActionType(pin.w, pin.h, pin.t),
                reported  |-> IF /\ Resampled(pin.w, pin.h, pin.t)
                                 /\ ResizeRaises(NewSize(pin.w, pin.h, pin.t).new_w,
                                                 NewSize(pin.w, pin.h, pin.t).new_h)
                              THEN "Error"
                              ELSE ActionType(pin.w, pin.h, pin.t),
                resampled |-> Resampled(pin.w, pin.h, pin.t),
                from_w    |-> pin.w,
                from_h    |-> pin.h,
                to_w      |-> NewSize(pin.w, pin.h, pin.t).new_w,
                to_h      |-> NewSize(pin.w, pin.h, pin.t).new_h]
    /\ UNCHANGED <<pin, appVars>>

\* ImageResizer.resize_image on an image of size (w, h): resized to
\* (new_width, new_height), or copied (no dimensions are computed).
PlanLegacy ==
    /\ pout.by = "none"
    /\ pout' = IF LegacyCopies(pin.w, pin.h, pin.t)
               THEN [by |-> "legacy", action |-> "copied", resampled |-> FALSE,
                     reported |-> "copied without resizing",
                     from_w |-> pin.w, from_h |-> pin.h,
                     to_w |-> pin.w, to_h |-> pin.h]
               ELSE [by |-> "legacy", action |-> "resized", resampled |-> TRUE,
                     reported |->
                        IF ResizeRaises(LegacyNewSize(pin.w, pin.h, pin.t).new_width,
                                        LegacyNewSize(pin.w, pin.h, pin.t).new_height)
                        THEN "Error processing" ELSE "resized and saved",
                     from_w |-> pin.w, from_h |-> pin.h,
                     to_w |-> LegacyNewSize(pin.w, pin.h, pin.t).new_width,
                     to_h |-> LegacyNewSize(pin.w, pin.h, pin.t).new_height]
    /\ UNCHANGED <<pin, appVars>>

NextPlan == PlanTask \/ PlanLegacy

SpecPlan == InitPlan /\ [][NextPlan]_vars

(***************************************************************************)
(* Spec: the application, its batch thread, the pool and the disk          *)
(***************************************************************************)
Init ==
    /\ InitApp
    /\ pin = [w |-> 1, h |-> 1, t |-> 1]
    /\ pout = NoOut

\* The environment of Spec never fails a write and kills no worker process,
\* and the size fields stay as constructed (SpecBatch and SpecEntry vary them).
\* Spec follows the window through its first batch; SpecTwice runs two.
Next ==
    \/ \E paths \in IncomingChoices :
          ProcessIncomingPaths(paths) /\ UNCHANGED <<runVars, diskVars, restVars>>
    \/ \E folder \in OutputChoices :
          ChooseOutput(folder) /\ UNCHANGED <<runVars, diskVars, restVars>>
    \/ StartJobEmpty /\ UNCHANGED restVars
    \/ StartJobMkdirFails /\ UNCHANGED restVars
    \/ StartJob /\ runs = <<>> /\ UNCHANGED restVars
    \/ CancelJob /\ UNCHANGED restVars
    \/ Deliver /\ UNCHANGED restVars
    \/ RunSubmit /\ UNCHANGED restVars
    \/ RunAsCompleted /\ UNCHANGED restVars
    \/ \E f \in DOMAIN fut : RunIteration(f) /\ UNCHANGED restVars
    \/ RunFinish /\ UNCHANGED restVars
    \/ \E f \in DOMAIN fut : TaskOpen(f) /\ UNCHANGED restVars
    \/ \E f \in DOMAIN fut : TaskSave(f) /\ UNCHANGED restVars
    \/ \E f \in DOMAIN fut : TaskDone(f) /\ UNCHANGED restVars

Spec == Init /\ [][Next]_vars

(***************************************************************************)
(* SpecTwice: the folder pics is in the queue and the user runs the batch, *)
(* empties the output folder and runs it again, never pressing Stop        *)
(***************************************************************************)
TwiceFiles == {FileA, FileB}

\* the state process_incoming_paths leaves after the folder pics was added
InitTwice ==
    /\ fs = InitFs
    /\ dirs = InitDirs
    /\ input_files = TwiceFiles
    /\ \E first_file \in TwiceFiles :
          output_dir = Join(Parent(first_file), "Resized")
    /\ txt_custom = <<>>
    /\ combo_size = DefaultResolution
    /\ ui = [InitUi EXCEPT !.lbl_count = Cardinality(TwiceFiles)]
    /\ console = <<Line(NoDir, "Added", <<Cardinality(TwiceFiles)>>)>>
    /\ dialogs = {}
    /\ worker = NoWorker
    /\ pc = "none"
    /\ fut = <<>>
    /\ completed_count = 0
    /\ sigq = <<>>
    /\ emits = <<>>
    /\ runs = <<>>
    /\ adds = <<(<<PicsDir>>)>>
    /\ legacy = InitLegacy
    /\ pin = [w |-> 1, h |-> 1, t |-> 1]
    /\ pout = NoOut

NextTwice ==
    \/ StartJob /\ UNCHANGED restVars
    \/ Deliver /\ UNCHANGED restVars
    \/ RunSubmit /\ UNCHANGED restVars
    \/ RunAsCompleted /\ UNCHANGED restVars
    \/ \E f \in DOMAIN fut : RunIteration(f) /\ UNCHANGED restVars
    \/ RunFinish /\ UNCHANGED restVars
    \/ \E f \in DOMAIN fut : TaskOpen(f) /\ UNCHANGED restVars
    \/ \E f \in DOMAIN fut : TaskSave(f) /\ UNCHANGED restVars
    \/ \E f \in DOMAIN fut : TaskDone(f) /\ UNCHANGED restVars
    \/ ClearOutput /\ UNCHANGED restVars

SpecTwice == InitTwice /\ [][NextTwice]_vars

(***************************************************************************)
(* The window through several batches, stopped or not, on a growing queue  *)
(***************************************************************************)
\* what is dropped on the window, and the folder picked for the output
AgainChoices == {<<SubDir>>}

AgainOutputs == {OutDir}

\* the state process_incoming_paths leaves after pics/a.jpg was dropped
InitAgain ==
    /\ fs = InitFs
    /\ dirs = InitDirs
    /\ input_files = {FileA}
    /\ output_dir = Join(Parent(FileA), "Resized")
    /\ txt_custom = <<>>
    /\ combo_size = DefaultResolution
    /\ ui = [InitUi EXCEPT !.lbl_count = 1]
    /\ console = <<Line(NoDir, "Added", <<1>>)>>
    /\ dialogs = {}
    /\ worker = NoWorker
    /\ pc = "none"
    /\ fut = <<>>
    /\ completed_count = 0
    /\ sigq = <<>>
    /\ emits = <<>>
    /\ runs = <<>>
    /\ adds = <<(<<FileA>>)>>
    /\ legacy = InitLegacy
    /\ pin = [w |-> 1, h |-> 1, t |-> 1]
    /\ pout = NoOut

\* The window is used between the batches when the workers of a stopped
\* batch have run out of tasks: a task reads neither the queue nor the
\* window's output folder, so these steps commute with the tasks' steps.
Drained == \A f \in DOMAIN fut : fut[f].st \in {"done", "cancelled"}

NextAgain ==
    \/ /\ Drained
       /\ \E paths \in AgainChoices :
             ProcessIncomingPaths(paths) /\ UNCHANGED <<runVars, diskVars, restVars>>
    \/ /\ Drained
       /\ \E folder \in AgainOutputs :
             ChooseOutput(folder) /\ UNCHANGED <<runVars, diskVars, restVars>>
    \/ StartJob /\ UNCHANGED restVars
    \/ CancelJob /\ UNCHANGED restVars
    \/ Deliver /\ UNCHANGED restVars
    \/ RunSubmit /\ UNCHANGED restVars
    \/ RunAsCompleted /\ UNCHANGED restVars
    \/ \E f \in DOMAIN fut : RunIteration(f) /\ UNCHANGED restVars
    \/ RunFinish /\ UNCHANGED restVars
    \/ \E f \in DOMAIN fut : TaskOpen(f) /\ UNCHANGED restVars
    \/ \E f \in DOMAIN fut : TaskSave(f) /\ UNCHANGED restVars
    \/ \E f \in DOMAIN fut : TaskDone(f) /\ UNCHANGED restVars

SpecAgain == InitAgain /\ [][NextAgain]_vars

(***************************************************************************)
(* SpecBatch: one batch of three files, from worker.start() to              *)
(* job_finished, in an environment where a write can fail and a worker      *)
(* process can die, with the user free to press Stop                        *)
(***************************************************************************)
BatchFiles == {FileA, FileB, FileC}

BatchDir == Join(PicsDir, "Resized")

\* The state start_job leaves after the folder pics was dropped on the
\* window, with the custom field empty or holding "4".
InitBatch ==
    /\ fs = BatchFs
    /\ dirs = InitDirs \cup WithParents(BatchDir)
    /\ input_files = BatchFiles
    /\ output_dir = BatchDir
    /\ txt_custom \in CustomChoices
    /\ combo_size = DefaultResolution
    /\ ui = [InitUi EXCEPT !.btn_process_visible = FALSE,
                           !.btn_cancel_visible = TRUE,
                           !.drop_zone_enabled = FALSE,
                           !.lbl_count = Cardinality(BatchFiles)]
    /\ console = <<Line(NoDir, "Starting batch",
                        <<GetTargetSize(txt_custom, combo_size)>>),
                   Note("Mode: Upscale and Downscale allowed"),
                   Line(BatchDir, "Destination", <<>>)>>
    /\ dialogs = {}
    /\ worker = [made |-> TRUE, files |-> BatchFiles, output_dir |-> BatchDir,
                 max_size |-> GetTargetSize(txt_custom, combo_size),
                 is_running |-> TRUE]
    /\ pc = "start"
    /\ fut = <<>>
    /\ completed_count = 0
    /\ sigq = <<>>
    /\ emits = <<>>
    /\ runs = <<NewRun(BatchFiles, BatchDir,
                       GetTargetSize(txt_custom, combo_size))>>
    /\ adds = <<(<<PicsDir>>)>>
    /\ legacy = InitLegacy
    /\ pin = [w |-> 1, h |-> 1, t |-> 1]
    /\ pout = NoOut

NextBatch ==
    \/ CancelJob /\ UNCHANGED restVars
    \/ Deliver /\ UNCHANGED restVars
    \/ RunSubmit /\ UNCHANGED restVars
    \/ RunAsCompleted /\ UNCHANGED restVars
    \/ \E f \in DOMAIN fut : RunIteration(f) /\ UNCHANGED restVars
    \/ RunFinish /\ UNCHANGED restVars
    \/ \E f \in DOMAIN fut : TaskOpen(f) /\ UNCHANGED restVars
    \/ \E f \in DOMAIN fut : TaskSave(f) /\ UNCHANGED restVars
    \/ \E f \in DOMAIN fut : TaskSaveFails(f) /\ UNCHANGED restVars
    \/ \E f \in DOMAIN fut : TaskDone(f) /\ UNCHANGED restVars
    \/ WorkerDies /\ UNCHANGED restVars

SpecBatch == InitBatch /\ [][NextBatch]_vars

(***************************************************************************)
(* BatchProcessor.run on any list of files, with a fair scheduler          *)
(***************************************************************************)
\* the default output folders start_job can derive for a queue
RunDirs(files) ==
    IF files = {} THEN {BatchDir}
    ELSE {Join(Parent(first), "Resized") : first \in files}

\* A BatchProcessor was constructed on a list of files and started.  The
\* lists are those start_job passes for a queue that was dropped on the
\* window, and the empty list, which only a direct caller of the class
\* passes (start_job returns at line 462 before it creates a batch).
InitRun ==
    \E files \in SUBSET BatchFiles : \E dir \in RunDirs(files) :
        /\ fs = BatchFs
        /\ dirs = InitDirs \cup WithParents(dir)
        /\ input_files = files
        /\ output_dir = dir
        /\ txt_custom = <<>>
        /\ combo_size = DefaultResolution
        /\ ui = [InitUi EXCEPT !.btn_process_visible = FALSE,
                               !.btn_cancel_visible = TRUE,
                               !.drop_zone_enabled = FALSE,
                               !.lbl_count = Cardinality(files)]
        /\ console = <<Line(NoDir, "Starting batch",
                            <<GetTargetSize(txt_custom, combo_size)>>),
                       Note("Mode: Upscale and Downscale allowed"),
                       Line(dir, "Destination", <<>>)>>
        /\ dialogs = {}
        /\ worker = [made |-> TRUE, files |-> files, output_dir |-> dir,
                     max_size |-> GetTargetSize(txt_custom, combo_size),
                     is_running |-> TRUE]
        /\ pc = "start"
        /\ fut = <<>>
        /\ completed_count = 0
        /\ sigq = <<>>
        /\ emits = <<>>
        /\ runs = <<NewRun(files, dir, GetTargetSize(txt_custom, combo_size))>>
        /\ adds = IF files = {} THEN <<>>
                  ELSE <<CHOOSE o \in Orders(files) : TRUE>>
        /\ legacy = InitLegacy
        /\ pin = [w |-> 1, h |-> 1, t |-> 1]
        /\ pout = NoOut

\* The thread of run() is scheduled until run() returns, and a worker
\* process that holds a task goes on with it: every task terminates, by
\* returning its result, by raising, or with its process.
RunFairness ==
    /\ WF_vars(RunSubmit /\ UNCHANGED restVars)
    /\ WF_vars(RunAsCompleted /\ UNCHANGED restVars)
    /\ WF_vars(\E f \in BatchFiles : RunIteration(f) /\ UNCHANGED restVars)
    /\ WF_vars(RunFinish /\ UNCHANGED restVars)
    /\ WF_vars(\E f \in BatchFiles : TaskOpen(f) /\ UNCHANGED restVars)
    /\ WF_vars(\E f \in BatchFiles :
                  (TaskSave(f) \/ TaskSaveFails(f)) /\ UNCHANGED restVars)
    /\ WF_vars(\E f \in BatchFiles : TaskDone(f) /\ UNCHANGED restVars)

SpecRun == InitRun /\ [][NextBatch]_vars /\ RunFairness

(***************************************************************************)
(* SpecEntry: the entry points of the target size in both applications     *)
(***************************************************************************)
EntryChars == {"0", "4", "-", " "}

\* every text of at most MaxText characters
EntryTexts == UNION {[1..n -> EntryChars] : n \in 0..MaxText}

\* the two windows as constructed, with the size widgets of one of them
\* holding any text the user can have typed or picked
InitEntry ==
    /\ \/ /\ txt_custom \in EntryTexts
          /\ combo_size \in Resolutions
          /\ legacy = InitLegacy
       \/ /\ txt_custom = <<>>
          /\ combo_size = DefaultResolution
          /\ \E text \in EntryTexts :
                legacy = [InitLegacy EXCEPT !.max_size_entry = text]
    /\ fs = InitFs
    /\ dirs = InitDirs
    /\ input_files = {}
    /\ output_dir = NoDir
    /\ ui = InitUi
    /\ console = <<>>
    /\ dialogs = {}
    /\ worker = NoWorker
    /\ pc = "none"
    /\ fut = <<>>
    /\ completed_count = 0
    /\ sigq = <<>>
    /\ emits = <<>>
    /\ runs = <<>>
    /\ adds = <<>>
    /\ pin = [w |-> 1, h |-> 1, t |-> 1]
    /\ pout = NoOut

NextEntry ==
    \/ ProcessIncomingPaths(<<FileA>>) /\ UNCHANGED <<runVars, diskVars, restVars>>
    \/ StartJobEmpty /\ UNCHANGED restVars
    \/ StartJob /\ UNCHANGED restVars
    \/ LegacyBrowseFolder(PicsDir) /\ UNCHANGED <<guiVars, runVars, adds, pin, pout>>
    \/ LegacyResizeImages /\ UNCHANGED <<guiVars, runVars, adds, pin, pout>>

SpecEntry == InitEntry /\ [][NextEntry]_vars

(***************************************************************************)
(* SpecScan: the scanners of both windows on a disk with an upper-case     *)
(* suffix, a text file and a subfolder                                     *)
(***************************************************************************)
FileMissing == <<"pics", "gone.jpg">>

\* the path lists handed to process_incoming_paths
ScanChoices ==
    IncomingChoices \cup
    {<<FileC>>, <<SubDir>>, <<FileNotes, SubDir>>, <<FileMissing>>, <<OutDir>>}

\* both windows as constructed, on the disk of SpecBatch
InitScan ==
    /\ fs = BatchFs
    /\ dirs = InitDirs
    /\ input_files = {}
    /\ output_dir = NoDir
    /\ txt_custom = <<>>
    /\ combo_size = DefaultResolution
    /\ ui = InitUi
    /\ console = <<>>
    /\ dialogs = {}
    /\ worker = NoWorker
    /\ pc = "none"
    /\ fut = <<>>
    /\ completed_count = 0
    /\ sigq = <<>>
    /\ emits = <<>>
    /\ runs = <<>>
    /\ adds = <<>>
    /\ legacy = InitLegacy
    /\ pin = [w |-> 1, h |-> 1, t |-> 1]
    /\ pout = NoOut

\* one of the two windows is used
NextScan ==
    \/ /\ legacy = InitLegacy
       /\ \E paths \in ScanChoices :
             ProcessIncomingPaths(paths) /\ UNCHANGED <<runVars, diskVars, restVars>>
    \/ /\ adds = <<>>
       /\ \E folder \in {PicsDir, SubDir} :
             LegacyBrowseFolder(folder)
             /\ UNCHANGED <<guiVars, runVars, adds, pin, pout>>
    \/ /\ adds = <<>>
       /\ LegacyResizeImages /\ UNCHANGED <<guiVars, runVars, adds, pin, pout>>

SpecScan == InitScan /\ [][NextScan]_vars

(***************************************************************************)
(* Properties                                                              *)
(***************************************************************************)
\* C1: the longest side of the computed size equals the target whenever the
\* source's longest side differs from it; when they are equal the item is
\* Copied (not resampled) and its reported size is the original size.
C1_LongestSideIsTarget ==
    pout.by # "none" =>
        IF Max2(pin.w, pin.h) # pin.t
        THEN /\ Max2(pout.to_w, pout.to_h) = pin.t
             /\ pout.resampled
        ELSE /\ pout.action \in {"Copied", "copied"}
             /\ ~pout.resampled
             /\ pout.to_w = pin.w /\ pout.to_h = pin.h

\* a portrait picture was resized by resize_image_task to another longest side
C1_Witness ==
    /\ pout.by = "task"
    /\ pin.w < pin.h /\ pin.h # pin.t
    /\ pout.to_h = pin.t /\ pout.to_w < pin.t

\* the signals of the current run
ResultLines(f) ==
    {i \in DOMAIN emits : emits[i].sig = "log" /\ emits[i].line.file = f}

CancelEmitted == \E i \in DOMAIN emits : emits[i] = Signal("log", CancelledMarker)

FinishedEmitted == \E i \in DOMAIN emits : emits[i].sig = "finished"

\* f's task wrote, or is writing, its output file
Wrote(f) ==
    \/ fut[f].st = "writing"
    \/ fut[f].st = "done" /\ fut[f].text \in {"Upscaled", "Downscaled", "Copied"}

\* C2: a task whose action is Copied leaves at its destination the very
\* bytes of its source (stated for a destination no other task wrote, in a
\* run the environment did not fail).
C2_IdentityIsByteCopy ==
    \A f \in DOMAIN fut :
        ( /\ fut[f].st = "done" /\ fut[f].text = "Copied"
          /\ ThisRun.faults = {}
          /\ \A g \in DOMAIN fut \ {f} :
                OutputPath(g, worker.output_dir) = OutputPath(f, worker.output_dir)
                    => ~Wrote(g) )
        => /\ OutputPath(f, worker.output_dir) \in DOMAIN fs
           /\ fs[OutputPath(f, worker.output_dir)] = fs[f]

\* C3: every file that was on the disk at the start still holds the bytes
\* it held then, whatever was queued, chosen, started, cancelled or finished.
C3_SourcesUntouched ==
    \A p \in DOMAIN InitFs : p \in DOMAIN fs => fs[p] = InitFs[p]

\* the incoming paths under which the scanner finds the file f
ScanRoots(f) ==
    {IF paths[i] = f THEN Parent(f) ELSE paths[i] :
        <<paths, i>> \in {<<q, j>> \in IncomingChoices \X (1..2) :
                            j \in DOMAIN q /\ f \in ScanOne(q[j])}}

\* C4: the destination of every task that writes is the output root followed
\* by the path of its source relative to the scanned folder.
C4_DestinationMirrorsTree ==
    \A f \in DOMAIN fut :
        Wrote(f) =>
            \A root \in ScanRoots(f) :
                OutputPath(f, worker.output_dir)
                    = worker.output_dir \o RelPath(f, root)

\* C5: a batch that is not cancelled has emitted, when it emits finished, one
\* result per file and no other line, counted every file, and emitted the
\* progress 100; finished is the last signal and is emitted once.
C5_UncancelledBatchCompletes ==
    (FinishedEmitted /\ ~CancelEmitted /\ worker.files # {}) =>
        LET N == Cardinality(worker.files)
        IN  /\ \A f \in worker.files : Cardinality(ResultLines(f)) = 1
            /\ Cardinality({i \in DOMAIN emits : emits[i].sig = "log"}) = N
            /\ completed_count = N
            /\ \E i \in DOMAIN emits :
                  emits[i] = Signal("progress", Line(NoDir, "", <<100>>))
            /\ \A i \in DOMAIN emits :
                  emits[i].sig = "finished" <=> i = Len(emits)

\* three files went through an uncancelled batch and the window shows it
C5_Witness ==
    /\ FinishedEmitted /\ ~CancelEmitted /\ worker.is_running
    /\ Cardinality(worker.files) = 3
    /\ completed_count = 3
    /\ sigq = <<>> /\ ui.progress = 100

\* C6: once the cancelled marker was emitted, the window never shows the
\* outcome of a completed run (the Done box with the bar at 100).
C6_CancelledRunNeverShowsComplete ==
    CancelEmitted =>
        ~(ui.btn_process_visible /\ ui.progress = 100 /\ "Done" \in dialogs)

\* C7: when the run emits finished, every task whose worker returned has
\* exactly one result line emitted, and no task has more than one.
C7_OneResultPerCompletedTask ==
    FinishedEmitted =>
        \A f \in DOMAIN fut :
            /\ Cardinality(ResultLines(f)) <= 1
            /\ (fut[f].st = "done" /\ fut[f].text # "raised")
                  => Cardinality(ResultLines(f)) = 1

\* C8: two finished, uncancelled, unfailed runs on the same files with the
\* same bytes, the same target and the same, empty, output folder leave the
\* same files with the same bytes in it.
C8_SameInputsSameOutputs ==
    ( /\ Len(runs) = 2
      /\ \A n \in 1..2 : /\ runs[n].finished /\ ~runs[n].cancelled
                          /\ runs[n].faults = {} /\ runs[n].clean
      /\ runs[1].files = runs[2].files
      /\ runs[1].src = runs[2].src
      /\ runs[1].output_dir = runs[2].output_dir
      /\ runs[1].max_size = runs[2].max_size )
    => runs[1].out = runs[2].out

\* C9: the target size handed to the resize computation is a positive
\* integer, from the custom field, the preset and the max-size entry.
C9_TargetAlwaysPositive ==
    /\ worker.made => worker.max_size > 0
    /\ \A i \in DOMAIN legacy.calls : legacy.calls[i].max_size > 0

\* a step of the batch: its thread or a worker process
BatchStep ==
    \/ RunSubmit
    \/ RunAsCompleted
    \/ RunFinish
    \/ \E f \in DOMAIN fut :
          RunIteration(f) \/ TaskOpen(f) \/ TaskSave(f) \/ TaskDone(f)

\* C10: the loop of an uncancelled run ends only when every file has its
\* result line, whatever the tasks returned or raised; the thread ends only
\* by emitting finished; the batch can always take a step until then; and
\* a future raises only when its worker process died, never for a file that
\* does not decode or a write that fails.
C10_FailureNeverHaltsBatch ==
    /\ (pc \in {"exit", "done"} /\ ~CancelEmitted)
          => \A f \in worker.files : Cardinality(ResultLines(f)) = 1
    /\ pc = "done" => FinishedEmitted
    /\ pc \in {"start", "submit", "loop", "exit"} => ENABLED BatchStep
    /\ \A f \in DOMAIN fut :
          fut[f].text = "raised" => "died" \in ThisRun.faults

\* a finished, uncancelled run in which one task was skipped, one returned
\* an error and one future raised
C10_Witness ==
    /\ pc = "done" /\ FinishedEmitted /\ ~CancelEmitted
    /\ \A text \in {"Skipped", "Error", "System Error"} :
          \E i \in DOMAIN emits : emits[i].sig = "log" /\ emits[i].line.text = text

\* C11: the step in which the IO Error box for the output folder appears
\* creates and starts no batch, emits and queues no signal, writes nothing,
\* shows that one box and leaves the buttons, the drop zone, the console
\* and the queue as they were.
C11_MkdirFailureAbortsRun ==
    [][("IO Error" \notin dialogs /\ "IO Error" \in dialogs') =>
          /\ worker' = worker /\ pc' = pc /\ fut' = fut /\ runs' = runs
          /\ completed_count' = completed_count
          /\ emits' = emits /\ sigq' = sigq
          /\ fs' = fs /\ dirs' = dirs
          /\ dialogs' = dialogs \cup {"IO Error"}
          /\ ui' = ui /\ console' = console /\ input_files' = input_files]_vars

\* start_job failed on the folder of a non-empty queue; no batch was made
C11_Witness ==
    /\ "IO Error" \in dialogs
    /\ input_files # {} /\ output_dir # NoDir /\ output_dir \notin dirs
    /\ ~worker.made /\ runs = <<>> /\ emits = <<>>
    /\ ui.btn_process_visible /\ ~ui.btn_cancel_visible /\ ui.drop_zone_enabled

\* C12: once the run has emitted finished, no worker is running or writing a
\* task and no file is left opened and unfinished by a writer (in a run
\* whose environment failed nothing).
C12_NoTruncatedFileAtFinish ==
    (FinishedEmitted /\ ThisRun.faults = {}) =>
        /\ Busy = {}
        /\ \A p \in DOMAIN fs : fs[p].kind # "partial"

\* every path that was added, in the order it was given
AddedPaths ==
    LET RECURSIVE Flat(_)
        Flat(lists) == IF lists = <<>> THEN <<>>
                       ELSE Head(lists) \o Flat(Tail(lists))
    IN  Flat(adds)

\* the files that can be the first input added: the first path that put a
\* file in the queue, or any file the scan of that folder can list first
FirstInputs ==
    LET hits == {i \in DOMAIN AddedPaths : ScanOne(AddedPaths[i]) # {}}
    IN  IF hits = {} THEN {}
        ELSE ScanOne(AddedPaths[CHOOSE i \in hits : \A j \in hits : i <= j])

\* C13: an output folder that was not chosen (a folder named Resized) is the
\* folder Resized beside the first input added, whatever else is queued.
C13_DefaultBesideFirstInput ==
    (output_dir # NoDir /\ Name(output_dir) = "Resized") =>
        \E first_input \in FirstInputs :
            output_dir = Join(Parent(first_input), "Resized")

\* the extension of each file name of the disk, in lower case
ExtensionOf(name) ==
    CASE name = "a.jpg"     -> ".jpg"
      [] name = "b.PNG"     -> ".png"
      [] name = "notes.txt" -> ".txt"
      [] OTHER              -> ""

\* the existing files with an extension of exts that are one of the given
\* paths or lie beneath one of them
Wanted(paths, exts) ==
    {f \in DOMAIN fs :
        /\ ExtensionOf(Name(f)) \in exts
        /\ \E i \in DOMAIN paths : f = paths[i] \/ IsUnder(f, paths[i])}

\* C14: each call of the scanner adds to the queue exactly the existing
\* files, given or beneath a given folder, whose lower-cased extension is
\* recognized; the old scanner hands resize_image exactly such files of the
\* selected folder.
C14_ScannerFiltersByExtension ==
    [][/\ adds' # adds =>
            input_files' = input_files \cup Wanted(adds'[Len(adds')], EXTENSIONS)
       /\ legacy'.calls # legacy.calls =>
            {legacy'.calls[i].file_path :
                 i \in (DOMAIN legacy'.calls) \ (DOMAIN legacy.calls)}
              = Wanted(<<legacy.selected_folder>>, LegacyExtensions)]_vars

\* a file with an upper-case suffix and one of a subfolder are queued, the
\* text file that was given is not
C14_Witness ==
    /\ FileC \in input_files /\ FileB \in input_files
    /\ FileNotes \notin input_files
    /\ \E i \in DOMAIN AddedPaths : AddedPaths[i] = FileNotes

\* C15: for every source size and target of at least 1, both sides of the
\* computed size are at least 1.
C15_SidesAtLeastOne ==
    pout.by # "none" => pout.to_w >= 1 /\ pout.to_h >= 1

\* n is an integer nearest to num / den
Nearest(n, num, den) == 2 * Abs(n * den - num) <= den

\* C16: when the longest side differs from the target, a source with
\* width >= height gets the target as its width and the nearest integer to
\* h * target / w as its height; any other gets the target as its height
\* and the nearest integer to w * target / h as its width.
C16_ShorterSideRoundsToNearest ==
    (pout.by # "none" /\ Max2(pin.w, pin.h) # pin.t) =>
        IF pin.w >= pin.h
        THEN /\ pout.to_w = pin.t
             /\ Nearest(pout.to_h, pin.h * pin.t, pin.w)
        ELSE /\ pout.to_h = pin.t
             /\ Nearest(pout.to_w, pin.w * pin.t, pin.h)

\* C17: the action resize_image_task reports for a decoded picture is
\* Upscaled iff the target is above the longest side, Downscaled iff it is
\* below, Copied iff it is equal, always one of the three, and the picture
\* is resampled iff the action is not Copied.
C17_ActionFollowsComparison ==
    pout.by = "task" =>
        /\ pout.reported \in {"Upscaled", "Downscaled", "Copied"}
        /\ pout.reported = "Upscaled" <=> pin.t > Max2(pin.w, pin.h)
        /\ pout.reported = "Downscaled" <=> pin.t < Max2(pin.w, pin.h)
        /\ pout.reported = "Copied" <=> pin.t = Max2(pin.w, pin.h)
        /\ pout.resampled <=> pout.reported # "Copied"

\* C18: once stop() was called, a task that is still pending stays pending
\* or is cancelled (or fails with the pool): no worker begins to execute it.
C18_NoTaskStartsAfterStop ==
    [][(worker.made /\ ~worker.is_running) =>
          \A f \in (DOMAIN fut) \cap (DOMAIN fut') :
              fut[f].st = "pending" =>
                  \/ fut'[f].st \in {"pending", "cancelled"}
                  \/ fut'[f].st = "done" /\ fut'[f].text = "raised"]_vars

\* the positions in emits of the progress signals
ProgressAt == {i \in DOMAIN emits : emits[i].sig = "progress"}

\* C19: the k-th progress value of a run is the integer part of 100 * k /
\* total and follows the k-th result, the values never decrease, and the
\* bar shows 100 only when every file of the run is counted.
C19_ProgressReflectsCount ==
    LET total == Cardinality(worker.files)
    IN  /\ \A i \in ProgressAt :
              LET k == Cardinality({j \in ProgressAt : j <= i})
              IN  /\ emits[i].line.size[1] = (100 * k) \div total
                  /\ i > 1 /\ emits[i - 1].sig = "log"
                  /\ k <= completed_count
        /\ \A i \in ProgressAt : \A j \in ProgressAt :
              i <= j => emits[i].line.size[1] <= emits[j].line.size[1]
        /\ ui.progress = 100 => completed_count = total

\* C20: of two tasks whose results were both emitted, the one that became
\* done first has its result emitted first.
C20_ResultsInCompletionOrder ==
    \A a \in DOMAIN fut : \A b \in DOMAIN fut :
        ( /\ ResultLines(a) # {} /\ ResultLines(b) # {}
          /\ fut[a].ord < fut[b].ord )
        => \A i \in ResultLines(a) : \A j \in ResultLines(b) : i < j

\* C21: the queue is a set: after every add the displayed count is the number
\* of distinct queued files and the console reports the number of files that
\* were not queued before, each file counting once however many of the given
\* paths reach it; adding a list of paths that was added before (the files on
\* disk being the same) changes neither the queue nor the displayed count.
C21_ScanResultIsASet ==
    [][adds' # adds =>
         LET paths == adds'[Len(adds')]
             fresh == Wanted(paths, EXTENSIONS) \ input_files
             said  == console'[Len(console')]
         IN  /\ input_files' = input_files \cup fresh
             /\ ui'.lbl_count = Cardinality(input_files')
             /\ ui'.lbl_count = ui.lbl_count + Cardinality(fresh)
             /\ said = IF fresh = {} THEN Note("No new valid images found")
                       ELSE Line(NoDir, "Added", <<Cardinality(fresh)>>)
             /\ (\E i \in DOMAIN adds : adds[i] = paths) =>
                    /\ input_files' = input_files
                    /\ ui'.lbl_count = ui.lbl_count]_vars

\* the folder was added and then two of its files were given directly: the
\* queue still holds each of the three pictures once
C21_Witness ==
    /\ adds = <<(<<PicsDir>>), <<FileB, FileA>>>>
    /\ input_files = {FileA, FileB, FileC}
    /\ ui.lbl_count = 3
    /\ console[Len(console)] = Note("No new valid images found")

\* C22: run() on an empty list of files creates no pool and no future,
\* writes no file and emits nothing but finished, once: it goes from its
\* start to its end in one step, and it always gets there.
C22_EmptyBatchOnlyFinishes ==
    /\ [](worker.files = {} =>
            /\ pc \in {"start", "done"}
            /\ fut = <<>> /\ Busy = {}
            /\ fs = BatchFs
            /\ emits = IF pc = "done" THEN <<Signal("finished", Note(""))>>
                       ELSE <<>>)
    /\ (worker.files = {} /\ pc = "start") ~> (pc = "done")

\* the empty batch has ended and the window has shown its completion
C22_Witness ==
    /\ worker.files = {} /\ pc = "done"
    /\ emits = <<Signal("finished", Note(""))>>
    /\ sigq = <<>> /\ "Done" \in dialogs

\* C23: a started batch whose tasks terminate reaches the end of run(),
\* whether or not and whenever stop() is called; run() has ended exactly
\* when finished was emitted, finished is emitted once and is the last
\* signal of the run, and nothing is emitted once run() has ended.
C23_BatchEndsWithOneFinished ==
    /\ <>(pc = "done")
    /\ [](/\ (pc = "done") <=> FinishedEmitted
          /\ \A i \in DOMAIN emits :
                 emits[i].sig = "finished" => i = Len(emits))
    /\ [][pc = "done" => pc' = "done" /\ emits' = emits]_vars

\* a batch that was stopped after its first result has emitted the
\* cancellation line and then finished, while a task is still running
C23_Witness ==
    /\ pc = "done" /\ ~worker.is_running
    /\ completed_count = 1
    /\ Len(emits) = 4
    /\ emits[3] = Signal("log", CancelledMarker)
    /\ emits[4].sig = "finished"
    /\ Busy # {}

\* job_finished has not run yet for the batch that was started
BatchShown ==
    \/ pc \in {"start", "submit", "loop", "exit"}
    \/ \E i \in DOMAIN sigq : sigq[i].sig = "finished"

\* the tasks of a batch that the pool still holds or runs
PoolWork == {f \in DOMAIN fut : fut[f].st \in {"pending", "running", "writing"}}

\* C24: from start_job until job_finished the start control is hidden, the
\* stop control shown and the drop zone disabled; once job_finished has run
\* the controls are in their idle state; and whenever the start control is
\* offered no task of an earlier batch is left in the pool, so that the
\* work of two batches never overlaps.
C24_OneBatchAtATime ==
    /\ BatchShown =>
          /\ ~ui.btn_process_visible
          /\ ui.btn_cancel_visible
          /\ ~ui.drop_zone_enabled
    /\ ui.btn_process_visible =>
          /\ ~ui.btn_cancel_visible /\ ui.btn_cancel_enabled
          /\ ui.drop_zone_enabled
          /\ PoolWork = {}

\* C25: no step takes a file out of the queue; every Start gives its batch
\* the whole queue, the files of every earlier batch included, finished or
\* stopped, and the batch submits a task for each of them.
C25_QueueOnlyGrows ==
    [][/\ input_files \subseteq input_files'
       /\ Len(runs') > Len(runs) =>
             /\ worker'.files = input_files
             /\ \A i \in DOMAIN runs : runs[i].files \subseteq worker'.files
       /\ (pc = "start" /\ pc' = "submit") =>
             DOMAIN fut' = input_files]_vars

\* a batch on a.jpg was stopped, a folder was added and the output folder
\* changed; the second batch has submitted a.jpg again with the new file
C25_Witness ==
    /\ Len(runs) = 2
    /\ runs[1].cancelled /\ runs[1].files = {FileA}
    /\ output_dir = OutDir
    /\ input_files = {FileA, FileB}
    /\ pc = "submit" /\ DOMAIN fut = {FileA, FileB}

==============================================================================
